---------------------------- MODULE Spec2Model ----------------------------
(***************************************************************************)
(* Model of src/app.py: the social-media reporting script.  The script is  *)
(* one synchronous run: load -> standardize columns -> scopes -> one batch *)
(* of tables per scope -> influencer tier table -> trend slides.           *)
(*                                                                         *)
(* Text is modelled as a sequence of one-character strings so that strip,  *)
(* title-casing, alias replacement and alphabetical group order are        *)
(* computed.  A number of an output table is a reduced fraction n/d, NaN   *)
(* or (after fillna("-")) the text "-".                                    *)
(***************************************************************************)
EXTENDS Integers, Sequences, FiniteSets, TLC

VARIABLES
    pc,       \* position of the script
    missing,  \* columns absent from the uploaded sheet (after the rename)
    raw,      \* the uploaded rows, as read by pd.read_excel
    df,       \* the standardized rows
    si,       \* index of the scope the GENERATE TABLES loop is at
    outputs,  \* table name -> table
    slides,   \* the slides added to the presentation, in order
    err,      \* the exception that ended the run, if any
    arg,      \* argument of the function applied on its own (SpecSort, SpecMetric)
    ret       \* its result

vars == <<pc, missing, raw, df, si, outputs, slides, err, arg, ret>>

(***************************************************************************)
(* Bounds of the model                                                     *)
(***************************************************************************)
MaxRows == 4        \* rows of an uploaded sheet (Spec)
MaxTable == 3       \* rows of a table handed to sort_brands (SpecSort)
MaxVolume == 2      \* largest volume of such a row (SpecSort)
MaxGroupRows == 3   \* rows of a scope handed to the metric functions (SpecMetric)

(***************************************************************************)
(* Characters and strings                                                  *)
(***************************************************************************)
Lowers == <<"a","b","c","d","e","f","g","h","i","j","k","l","m",
            "n","o","p","q","r","s","t","u","v","w","x","y","z">>
Uppers == <<"A","B","C","D","E","F","G","H","I","J","K","L","M",
            "N","O","P","Q","R","S","T","U","V","W","X","Y","Z">>
\* ASCII order of the characters that occur
Ascii == <<" ", "+", "-", "1", "2", "3">> \o Uppers \o Lowers

\* a function on 1..n, as the tuple of its values
Tuple(f) == f \o <<>>

IndexOf(seq, c) == CHOOSE i \in 1..Len(seq) : seq[i] = c
Contains(seq, c) == \E i \in 1..Len(seq) : seq[i] = c
\* code point order, as a table
OrdMap == [c \in {Ascii[i] : i \in 1..Len(Ascii)} |-> IndexOf(Ascii, c)]
Ord(c) == OrdMap[c]

islower(c) == Contains(Lowers, c)
isupper(c) == Contains(Uppers, c)
iscased(c) == islower(c) \/ isupper(c)
upper(c) == IF islower(c) THEN Uppers[IndexOf(Lowers, c)] ELSE c
lower(c) == IF isupper(c) THEN Lowers[IndexOf(Uppers, c)] ELSE c

\* str.title(): a cased character is upper-cased when the character before
\* it is not cased, lower-cased otherwise
str_title(s) ==
    Tuple([i \in 1..Len(s) |->
        IF i > 1 /\ iscased(s[i-1]) THEN lower(s[i]) ELSE upper(s[i])])

\* str.strip(): drop the leading and trailing whitespace
str_strip(s) ==
    LET keep == {i \in 1..Len(s) : s[i] # " "}
    IN  IF keep = {} THEN <<>>
        ELSE LET lo == CHOOSE i \in keep : \A j \in keep : i <= j
                 hi == CHOOSE i \in keep : \A j \in keep : j <= i
             IN  SubSeq(s, lo, hi)

\* Python's order of str: lexicographic by code point
StrLess(a, b) ==
    \E k \in 1..Len(b) :
        /\ k <= Len(a) + 1
        /\ \A j \in 1..(k-1) : a[j] = b[j]
        /\ (k = Len(a) + 1 \/ Ord(a[k]) < Ord(b[k]))

\* The text of the program and of the inputs
sSimilac == <<"S","i","m","i","l","a","c">>
sEnsure == <<"E","n","s","u","r","e">>
sPediasure == <<"P","e","d","i","a","s","u","r","e">>
sPedialyte == <<"P","e","d","i","a","l","y","t","e">>
sJuven == <<"J","u","v","e","n">>
sGlucerna == <<"G","l","u","c","e","r","n","a">>
sAcme == <<"A","c","m","e">>
sZeta == <<"Z","e","t","a">>
sNan == <<"n","a","n">>
sTagged == <<"T","a","g","g","e","d">>
sInfluencer == <<"I","n","f","l","u","e","n","c","e","r">>
sCreators == <<"C","r","e","a","t","o","r","s">>
sCreator == <<"C","r","e","a","t","o","r">>
sBranded == <<"B","r","a","n","d","e","d">>
sOrganic == <<"O","r","g","a","n","i","c">>
sShop == <<"S","h","o","p">>
sReels == <<"R","e","e","l","s">>
sShorts == <<"S","h","o","r","t","s">>
sVideo == <<"V","i","d","e","o">>
sImages == <<"I","m","a","g","e","s">>
sImage == <<"I","m","a","g","e">>
sSidecar == <<"S","i","d","e","c","a","r">>
sCarousel == <<"C","a","r","o","u","s","e","l">>
sImageVideo == <<"I","m","a","g","e","+","V","i","d","e","o">>
sIg == <<"I","g">>
sMacro == <<"M","a","c","r","o">>
sMicro == <<"M","i","c","r","o">>

PRIORITY_BRANDS == <<sSimilac, sEnsure, sPediasure, sPedialyte, sJuven, sGlucerna>>

(***************************************************************************)
(* Cells of the uploaded sheet                                             *)
(***************************************************************************)
\* a text cell, or an empty cell (NaN)
Txt(s) == [k |-> "str", s |-> s]
Blank == [k |-> "nan", s |-> <<>>]
\* a numeric cell: a number, text that parses as a number, other text, empty
Num(v) == [k |-> "num", v |-> v]
NumText(v) == [k |-> "numtext", v |-> v]
BadText == [k |-> "text", v |-> 0]
Empty == [k |-> "blank", v |-> 0]

\* .astype(str): a missing value becomes the text "nan"
astype_str(c) == IF c.k = "nan" THEN sNan ELSE c.s

\* pd.to_numeric(errors="coerce").fillna(0): what parses keeps its value,
\* whatever its sign; everything else is NaN, then 0
to_numeric_fillna0(c) == IF c.k \in {"num", "numtext"} THEN c.v ELSE 0

\* Series.replace(dict): a value equal to a key becomes that key's value
replace_post_type(s) ==
    IF s = sTagged THEN sInfluencer
    ELSE IF s = sCreators THEN sCreator
    ELSE s

replace_format(s) ==
    IF s = sReels THEN sShorts
    ELSE IF s = sImages THEN sImage
    ELSE IF s = sSidecar THEN sCarousel
    ELSE IF s = sImageVideo THEN sCarousel
    ELSE s

norm_brand(c) == str_title(str_strip(astype_str(c)))
norm_post_type(c) == replace_post_type(str_title(astype_str(c)))
norm_format(c) == replace_format(str_title(astype_str(c)))

is_dynamic(fmt) == fmt \in {sVideo, sShorts}
is_paid(pt) == pt \in {sBranded, sInfluencer, sCreator, sShop}

\* One row through the STANDARDIZE COLUMNS block; i is the row's index label
StandardizeRow(r, i) ==
    LET likes == to_numeric_fillna0(r.Likes)
        comments == to_numeric_fillna0(r.Comments)
        fmt == norm_format(r.format)
        pt == norm_post_type(r.post_type)
    IN  [idx |-> i,
         platform |-> r.platform,
         brand |-> norm_brand(r.brand),
         post_type |-> pt,
         format |-> fmt,
         Likes |-> likes,
         Comments |-> comments,
         views |-> to_numeric_fillna0(r.views),
         followers |-> to_numeric_fillna0(r.followers),
         engagement |-> likes + comments,
         Week |-> r.Week,
         influencer_tier |-> r.influencer_tier,
         is_dynamic |-> is_dynamic(fmt),
         is_paid |-> is_paid(pt)]

\* The columns the block reads, in the order it reads them
StandardizeReads == <<"Likes", "Comments", "views", "followers",
                      "brand", "post_type", "format">>

RequiredColumns == {"platform", "brand", "post_type", "format", "views",
                    "followers", "influencer_tier", "Likes", "Comments", "Week"}

NoError == [kind |-> "none", col |-> ""]
\* df[c] of an absent column raises KeyError(c)
KeyError(c) == [kind |-> "KeyError", col |-> c]

FirstMissing(reads) ==
    LET bad == {i \in 1..Len(reads) : reads[i] \in missing}
    IN  reads[CHOOSE i \in bad : \A j \in bad : i <= j]

Abort(e) ==
    /\ pc' = "aborted"
    /\ err' = e

\* Lines 55-95: rename, numeric coercion, engagement, categorical
\* normalization, flags
Standardize ==
    /\ pc = "loaded"
    /\ IF \E i \in 1..Len(StandardizeReads) : StandardizeReads[i] \in missing
       THEN /\ Abort(KeyError(FirstMissing(StandardizeReads)))
            /\ UNCHANGED <<df, si>>
       ELSE /\ df' = [i \in 1..Len(raw) |-> StandardizeRow(raw[i], i - 1)]
            /\ pc' = "tables"
            /\ si' = 1
            /\ UNCHANGED err
    /\ UNCHANGED <<missing, raw, outputs, slides, arg, ret>>

(***************************************************************************)
(* SpecNorm: the STANDARDIZE COLUMNS block on every one-row sheet whose    *)
(* cells are drawn from the sets below.                                    *)
(***************************************************************************)
Pad(s, lead, trail) ==
    (IF lead THEN <<" ">> ELSE <<>>) \o s \o (IF trail THEN <<" ">> ELSE <<>>)
AllLower(s) == [i \in 1..Len(s) |-> lower(s[i])]
AllUpper(s) == [i \in 1..Len(s) |-> upper(s[i])]

\* every spelling of the words: lower, upper or title case, with or without
\* a space before and after
Spellings(words) ==
    {Txt(Pad(w, l, t)) :
        w \in UNION {{x, AllLower(x), AllUpper(x)} : x \in words},
        l \in BOOLEAN, t \in BOOLEAN}

NormBrandCells ==
    {Txt(Pad(AllLower(sSimilac), FALSE, TRUE)), Txt(Pad(sSimilac, TRUE, FALSE)),
     Txt(AllUpper(sEnsure)), Txt(sAcme), Blank}
NormTypeCells == Spellings({sTagged}) \cup {Txt(AllLower(sCreators)), Txt(sOrganic), Blank}
NormFormatCells ==
    Spellings({sReels}) \cup {Txt(AllLower(sImageVideo)), Txt(sVideo), Txt(sImage), Blank}
NormNumCells == {Num(-1), Num(0), Num(2), NumText(-2), BadText, Empty}
NormViewCells == {Num(-1), Num(3), BadText}

InitNorm ==
    /\ pc = "loaded"
    /\ missing = {}
    /\ \E b \in NormBrandCells, t \in NormTypeCells, f \in NormFormatCells,
          l \in NormNumCells, v \in NormViewCells :
          raw = <<[platform |-> sIg, brand |-> b, post_type |-> t, format |-> f,
                   Likes |-> l, Comments |-> Num(1), views |-> v,
                   followers |-> Empty, Week |-> 1, influencer_tier |-> Blank]>>
    /\ df = <<>>
    /\ si = 0
    /\ outputs = <<>>
    /\ slides = <<>>
    /\ err = NoError
    /\ arg = <<>>
    /\ ret = <<>>

NextNorm == Standardize

SpecNorm == InitNorm /\ [][NextNorm]_vars

(***************************************************************************)
(* Numbers of the output tables                                            *)
(***************************************************************************)
Abs(n) == IF n < 0 THEN -n ELSE n

RECURSIVE GCD(_, _)
GCD(a, b) == IF b = 0 THEN a ELSE GCD(b, a % b)

\* the number n/d (d > 0), in lowest terms: two cells are the same float
\* exactly when they are the same record
Frac(n, d) ==
    LET g == GCD(Abs(n), d)
    IN  [k |-> "num", n |-> n \div g, d |-> d \div g]
N(n) == [k |-> "num", n |-> n, d |-> 1]
NaN == [k |-> "nan", n |-> 0, d |-> 1]
Dash == [k |-> "str", n |-> 0, d |-> 1]

NumLess(a, b) == a.n * b.d < b.n * a.d

\* The order sort_values gives the values of a column when it sorts by
\* several keys (an ordered Categorical of the values): numbers ascending,
\* text after every number
CellLess(a, b) ==
    \/ a.k = "num" /\ b.k = "num" /\ NumLess(a, b)
    \/ a.k = "num" /\ b.k = "str"

\* descending order of a column, NaN last (na_position="last")
VolBefore(a, b) ==
    IF a.k = "nan" THEN FALSE
    ELSE IF b.k = "nan" THEN TRUE
    ELSE CellLess(b, a)

\* a column of a table of records, as the sequence of its values
Column(T, name) == Tuple([i \in 1..Len(T) |-> T[i][name]])

(***************************************************************************)
(* BRAND ORDERING                                                          *)
(***************************************************************************)
\* the __priority column: PRIORITY_BRANDS.index(x), or len(PRIORITY_BRANDS)
priority(x) ==
    IF Contains(PRIORITY_BRANDS, x)
    THEN IndexOf(PRIORITY_BRANDS, x) - 1
    ELSE Len(PRIORITY_BRANDS)

\* sort_brands with volume ascending
sort_brands_ascending(T, vol) ==
    LET p == Tuple([i \in 1..Len(T) |-> priority(T[i].brand)])
        Before(i, j) ==
            \/ p[i] < p[j]
            \/ p[i] = p[j] /\ VolBefore(vol[j], vol[i])
            \/ p[i] = p[j] /\ vol[i] = vol[j] /\ i < j
        pos(i) == 1 + Cardinality({j \in 1..Len(T) : Before(j, i)})
    IN  Tuple([k \in 1..Len(T) |-> T[CHOOSE i \in 1..Len(T) : pos(i) = k]])

\* sort_values(by=["__priority", volume_col], ascending=[True, False]): a
\* sort by several keys is a stable lexsort, so rows equal in both keys
\* keep their order.  vol is the volume column of T.
sort_brands(T, vol) ==
    LET p == Tuple([i \in 1..Len(T) |-> priority(T[i].brand)])
        Before(i, j) ==
            \/ p[i] < p[j]
            \/ p[i] = p[j] /\ VolBefore(vol[i], vol[j])
            \/ p[i] = p[j] /\ vol[i] = vol[j] /\ i < j
        pos(i) == 1 + Cardinality({j \in 1..Len(T) : Before(j, i)})
    IN  Tuple([k \in 1..Len(T) |-> T[CHOOSE i \in 1..Len(T) : pos(i) = k]])

(***************************************************************************)
(* SpecSort: sort_brands on every table of at most MaxTable rows           *)
(***************************************************************************)
SortBrands == {sSimilac, sEnsure, sAcme, sZeta}

SortTables ==
    UNION {[1..n -> SortBrands \X (0..MaxVolume)] : n \in 0..MaxTable}

InitSort ==
    /\ pc = "sort_call"
    /\ \E t \in SortTables :
          arg = [i \in 1..Len(t) |->
                    [idx |-> i - 1, brand |-> t[i][1], v |-> N(t[i][2])]]
    /\ ret = <<>>
    /\ missing = {}
    /\ raw = <<>>
    /\ df = <<>>
    /\ si = 0
    /\ outputs = <<>>
    /\ slides = <<>>
    /\ err = NoError

ApplySort ==
    /\ pc = "sort_call"
    /\ ret' = sort_brands(arg, Column(arg, "v"))
    /\ pc' = "sort_done"
    /\ UNCHANGED <<missing, raw, df, si, outputs, slides, err, arg>>

NextSort == ApplySort

SpecSort == InitSort /\ [][NextSort]_vars

InPriorityList(b) == \E i \in 1..Len(PRIORITY_BRANDS) : PRIORITY_BRANDS[i] = b
ListIndex(b) == CHOOSE i \in 1..Len(PRIORITY_BRANDS) : PRIORITY_BRANDS[i] = b
\* position of a brand in the ranking: its list index, or after the list
RankPos(b) == IF InPriorityList(b) THEN ListIndex(b) ELSE Len(PRIORITY_BRANDS) + 1

\* C1: sort_brands returns the rows of T, priority-list brands first in list
\* order whatever their volume, then the other brands by volume descending;
\* rows equal in priority position and volume keep their input order.
C1_SortBrandsOrder ==
    pc = "sort_done" =>
        /\ Len(ret) = Len(arg)
        /\ \A i \in 1..Len(arg) : \E k \in 1..Len(ret) : ret[k] = arg[i]
        /\ \A k \in 1..Len(ret) : \A l \in (k+1)..Len(ret) :
              /\ InPriorityList(ret[l].brand) => InPriorityList(ret[k].brand)
              /\ (InPriorityList(ret[k].brand) /\ InPriorityList(ret[l].brand))
                    => ListIndex(ret[k].brand) <= ListIndex(ret[l].brand)
              /\ (~InPriorityList(ret[k].brand) /\ ~InPriorityList(ret[l].brand))
                    => ret[k].v.n >= ret[l].v.n
              /\ (RankPos(ret[k].brand) = RankPos(ret[l].brand) /\ ret[k].v = ret[l].v)
                    => ret[k].idx < ret[l].idx

\* a priority brand of volume 0 ranked above a non-priority brand of the
\* largest volume, followed by two tied non-priority rows of different brands
\* that the input held in this order, after a priority row
C1_Witness ==
    /\ pc = "sort_done"
    /\ Len(ret) = 3
    /\ ret[1].brand = sEnsure /\ ret[1].v = N(0) /\ ret[1].idx = 2
    /\ ret[2].brand = sZeta /\ ret[2].v = N(MaxVolume) /\ ret[2].idx = 0
    /\ ret[3].brand = sAcme /\ ret[3].v = N(MaxVolume) /\ ret[3].idx = 1

(***************************************************************************)
(* groupby                                                                 *)
(***************************************************************************)
\* order of group keys (tuples of text): by the first column, then the next
TupleLess(a, b) ==
    \E k \in 1..Len(a) :
        /\ \A j \in 1..(k-1) : a[j] = b[j]
        /\ StrLess(a[k], b[k])

\* influencer_tier may be empty; the other key columns hold text
KeyPresent(r, name) == name = "influencer_tier" => r[name].k # "nan"
KeyValue(r, name) == IF name = "influencer_tier" THEN r[name].s ELSE r[name]
KeyTuple(r, by) == Tuple([i \in 1..Len(by) |-> KeyValue(r, by[i])])

\* DataFrame.groupby(by): rows with a missing key are dropped, the groups
\* come in ascending order of their key, each with its rows in table order
groupby(T, by) ==
    LET Valid(r) == \A i \in 1..Len(by) : KeyPresent(r, by[i])
        rows == SelectSeq(T, Valid)
        keys == {KeyTuple(rows[i], by) : i \in 1..Len(rows)}
        rank(k) == 1 + Cardinality({j \in keys : TupleLess(j, k)})
    IN  Tuple([g \in 1..Cardinality(keys) |->
            LET k == CHOOSE x \in keys : rank(x) = g
                InGroup(r) == KeyTuple(r, by) = k
            IN  [key |-> k, rows |-> SelectSeq(rows, InGroup)]])

\* the key columns reset_index() adds to a row, and the new RangeIndex label
KeyColumns(by, k, g) ==
    [n \in {by[i] : i \in 1..Len(by)} \cup {"idx"} |->
        IF n = "idx" THEN g - 1 ELSE k[IndexOf(by, n)]]

(***************************************************************************)
(* METRIC FUNCTIONS                                                        *)
(***************************************************************************)
RECURSIVE SumTo(_, _, _)
SumTo(x, name, n) == IF n = 0 THEN 0 ELSE x[n][name] + SumTo(x, name, n - 1)
\* x[name].sum()
Sum(x, name) == SumTo(x, name, Len(x))

IsDynamicRow(r) == r.is_dynamic

\* overall_metrics with the rate taken over all rows of the group
overall_metrics_all_rows(x) ==
    LET video_eng == Sum(x, "engagement")
        video_views == Sum(x, "views")
    IN  [Total_Posts |-> N(Len(x)),
         Total_Engagement |-> N(Sum(x, "engagement")),
         Video_Engagement |-> N(video_eng),
         Total_Views |-> N(video_views),
         Avg_ER |-> IF video_views > 0 THEN Frac(video_eng, video_views) ELSE NaN]

\* overall_metrics reporting 0 for an empty denominator
overall_metrics_zero(x) ==
    LET video_eng == Sum(SelectSeq(x, IsDynamicRow), "engagement")
        video_views == Sum(SelectSeq(x, IsDynamicRow), "views")
    IN  [Total_Posts |-> N(Len(x)),
         Total_Engagement |-> N(Sum(x, "engagement")),
         Video_Engagement |-> N(video_eng),
         Total_Views |-> N(video_views),
         Avg_ER |-> IF video_views > 0 THEN Frac(video_eng, video_views) ELSE N(0)]

\* Lines 117-127.  The columns are 'Total Posts', 'Total Engagement',
\* 'Video Engagement', 'Total Views', 'Avg ER%'; None in the Series is NaN.
overall_metrics(x) ==
    LET video_eng == Sum(SelectSeq(x, IsDynamicRow), "engagement")
        video_views == Sum(SelectSeq(x, IsDynamicRow), "views")
    IN  [Total_Posts |-> N(Len(x)),
         Total_Engagement |-> N(Sum(x, "engagement")),
         Video_Engagement |-> N(video_eng),
         Total_Views |-> N(video_views),
         Avg_ER |-> IF video_views > 0 THEN Frac(video_eng, video_views) ELSE NaN]

\* format_metrics dividing by views whatever the format
format_metrics_views_only(x) ==
    LET eng == Sum(x, "engagement")
        views == Sum(x, "views")
    IN  [Post_Count |-> N(Len(x)),
         Avg_ER |-> IF views > 0 THEN Frac(eng, views) ELSE NaN]

\* Lines 129-144.  The columns are 'Post Count' and 'Avg ER%'.
format_metrics(x) ==
    LET fmt == x[1].format
        eng == Sum(x, "engagement")
        views == Sum(x, "views")
        foll == Sum(x, "followers")
    IN  [Post_Count |-> N(Len(x)),
         Avg_ER |-> IF fmt \in {sVideo, sShorts}
                    THEN (IF views > 0 THEN Frac(eng, views) ELSE NaN)
                    ELSE (IF foll > 0 THEN Frac(eng, foll) ELSE NaN)]

\* sdf.groupby(by).apply(overall_metrics).reset_index()
overall_table(sdf, by) ==
    LET gs == groupby(sdf, by)
    IN  Tuple([g \in 1..Len(gs) |->
            KeyColumns(by, gs[g].key, g) @@ overall_metrics(gs[g].rows)])

\* Lines 171-175: sdf.groupby(["brand", "format"]).apply(format_metrics).reset_index()
format_long(sdf) ==
    LET by == <<"brand", "format">>
        gs == groupby(sdf, by)
    IN  Tuple([g \in 1..Len(gs) |->
            KeyColumns(by, gs[g].key, g) @@ format_metrics(gs[g].rows)])

(***************************************************************************)
(* SpecMetric: the metric functions on every scope of at most MaxGroupRows *)
(* rows drawn from the rows below                                          *)
(***************************************************************************)
\* <<engagement, views, followers>> of a post
MetricProfiles == {<<20, 100, 0>>, <<30, 150, 0>>, <<10, 0, 500>>}
MetricRows == {sAcme, sZeta} \X {sVideo, sShorts, sImage} \X MetricProfiles
MetricScopes == UNION {[1..n -> MetricRows] : n \in 1..MaxGroupRows}

InitMetric ==
    /\ pc = "metric_call"
    /\ \E t \in MetricScopes :
          arg = [i \in 1..Len(t) |->
                    [idx |-> i - 1, brand |-> t[i][1], format |-> t[i][2],
                     is_dynamic |-> is_dynamic(t[i][2]),
                     engagement |-> t[i][3][1], views |-> t[i][3][2],
                     followers |-> t[i][3][3]]]
    /\ ret = <<>>
    /\ missing = {}
    /\ raw = <<>>
    /\ df = <<>>
    /\ si = 0
    /\ outputs = <<>>
    /\ slides = <<>>
    /\ err = NoError

ApplyOverall ==
    /\ pc = "metric_call"
    /\ ret' = overall_table(arg, <<"brand">>)
    /\ pc' = "overall_done"
    /\ UNCHANGED <<missing, raw, df, si, outputs, slides, err, arg>>

ApplyFormat ==
    /\ pc = "metric_call"
    /\ ret' = format_long(arg)
    /\ pc' = "format_done"
    /\ UNCHANGED <<missing, raw, df, si, outputs, slides, err, arg>>

NextMetric == ApplyOverall \/ ApplyFormat

SpecMetric == InitMetric /\ [][NextMetric]_vars

RECURSIVE SumOver(_, _, _)
\* sum of a column over the rows of T whose position is in S
SumOver(T, S, name) ==
    IF S = {} THEN 0
    ELSE LET i == CHOOSE j \in S : TRUE
         IN  T[i][name] + SumOver(T, S \ {i}, name)

\* the cell c is the number n/d
IsRatio(c, n, d) == c.k = "num" /\ c.n * d = n * c.d

\* C4: for every brand group, 'Avg ER%' is engagement over views summed
\* over the dynamic-format rows only, while 'Total Posts' and 'Total
\* Engagement' take every row of the group, static ones included.
C4_OverallRateDynamicOnly ==
    pc = "overall_done" =>
        \A b \in {arg[i].brand : i \in 1..Len(arg)} :
            LET S == {i \in 1..Len(arg) : arg[i].brand = b}
                D == {i \in S : arg[i].format \in {sVideo, sShorts}}
                R == {k \in 1..Len(ret) : ret[k].brand = b}
            IN  /\ Cardinality(R) = 1
                /\ \A k \in R :
                      /\ ret[k].Total_Posts = N(Cardinality(S))
                      /\ ret[k].Total_Engagement = N(SumOver(arg, S, "engagement"))
                      /\ SumOver(arg, D, "views") > 0 =>
                            IsRatio(ret[k].Avg_ER, SumOver(arg, D, "engagement"),
                                    SumOver(arg, D, "views"))

\* the scenario of the claim: two dynamic posts (views 100 and 150,
\* engagement 20 and 30) and a static post (followers 500, engagement 10)
C4_Witness ==
    /\ pc = "overall_done"
    /\ Len(arg) = 3
    /\ \A i \in 1..3 : arg[i].brand = sAcme
    /\ arg[1].format = sVideo /\ arg[1].engagement = 20 /\ arg[1].views = 100
    /\ arg[2].format = sShorts /\ arg[2].engagement = 30 /\ arg[2].views = 150
    /\ arg[3].format = sImage /\ arg[3].engagement = 10 /\ arg[3].followers = 500
    /\ Len(ret) = 1
    /\ ret[1].Avg_ER = [k |-> "num", n |-> 1, d |-> 5]
    /\ ret[1].Total_Posts = N(3)
    /\ ret[1].Total_Engagement = N(60)

\* C5: in the per-format table every (brand, format) group has as rate its
\* engagement over its views when the format is Video or Shorts and over its
\* followers otherwise, and as Post Count its number of rows.
C5_FormatRateByFormat ==
    pc = "format_done" =>
        \A b \in {arg[i].brand : i \in 1..Len(arg)} :
        \A f \in {arg[i].format : i \in 1..Len(arg)} :
            LET S == {i \in 1..Len(arg) : arg[i].brand = b /\ arg[i].format = f}
                R == {k \in 1..Len(ret) : ret[k].brand = b /\ ret[k].format = f}
                den == IF f \in {sVideo, sShorts}
                       THEN SumOver(arg, S, "views")
                       ELSE SumOver(arg, S, "followers")
            IN  IF S = {} THEN R = {}
                ELSE /\ Cardinality(R) = 1
                     /\ \A k \in R :
                           /\ ret[k].Post_Count = N(Cardinality(S))
                           /\ den > 0 =>
                                 IsRatio(ret[k].Avg_ER,
                                         SumOver(arg, S, "engagement"), den)

\* one brand with a dynamic group of two posts (rate 50/250) and a static
\* group of one post (rate 10/500)
C5_Witness ==
    /\ pc = "format_done"
    /\ Len(arg) = 3
    /\ Len(ret) = 2
    /\ ret[1].format = sImage /\ ret[1].Post_Count = N(1)
    /\ ret[1].Avg_ER = [k |-> "num", n |-> 1, d |-> 50]
    /\ ret[2].format = sVideo /\ ret[2].Post_Count = N(2)
    /\ ret[2].Avg_ER = [k |-> "num", n |-> 1, d |-> 5]

(***************************************************************************)
(* CONTENT SCOPES and the wide per-format tables                           *)
(***************************************************************************)
ScopeNames == <<"Paid", "Organic", "Branded", "Influencer", "Creator">>

IsPaidRow(r) == r.is_paid
IsOrganicRow(r) == r.post_type = sOrganic
IsBrandedRow(r) == r.post_type = sBranded
IsInfluencerRow(r) == r.post_type = sInfluencer
IsCreatorRow(r) == r.post_type = sCreator

\* Lines 150-156
scopes(d) ==
    [Paid |-> SelectSeq(d, IsPaidRow),
     Organic |-> SelectSeq(d, IsOrganicRow),
     Branded |-> SelectSeq(d, IsBrandedRow),
     Influencer |-> SelectSeq(d, IsInfluencerRow),
     Creator |-> SelectSeq(d, IsCreatorRow)]

\* the distinct values of a set of text, ascending
SortedText(S) ==
    Tuple([g \in 1..Cardinality(S) |->
        CHOOSE x \in S : 1 + Cardinality({y \in S : StrLess(y, x)}) = g])

\* Lines 178-188: pivot_table(index="brand", columns="format",
\* values="Post Count", aggfunc="sum", fill_value=0).reset_index().
\* A row is its brand and, under cells, one number per format column.
pivot_post_count(fl) ==
    LET brands == SortedText({fl[i].brand : i \in 1..Len(fl)})
        fmts == {fl[i].format : i \in 1..Len(fl)}
    IN  Tuple([g \in 1..Len(brands) |->
            [idx |-> g - 1,
             brand |-> brands[g],
             cells |-> [f \in fmts |->
                 LET hit == {i \in 1..Len(fl) :
                                fl[i].brand = brands[g] /\ fl[i].format = f}
                 IN  IF hit = {} THEN N(0)
                     ELSE fl[CHOOSE i \in hit : TRUE].Post_Count]]])

HasRate(r) == r.Avg_ER.k # "nan"

\* Lines 191-201: pivot_table(..., values="Avg ER%", aggfunc="first")
\* .reset_index().fillna("-").  pivot_table (dropna=True) drops the groups
\* whose only value is NaN before it unstacks, so a brand or a format with no
\* defined rate has no row or column; the holes left are filled with "-".
pivot_avg_er(fl) ==
    LET kept == SelectSeq(fl, HasRate)
        brands == SortedText({kept[i].brand : i \in 1..Len(kept)})
        fmts == {kept[i].format : i \in 1..Len(kept)}
    IN  Tuple([g \in 1..Len(brands) |->
            [idx |-> g - 1,
             brand |-> brands[g],
             cells |-> [f \in fmts |->
                 LET hit == {i \in 1..Len(kept) :
                                kept[i].brand = brands[g] /\ kept[i].format = f}
                 IN  IF hit = {} THEN Dash
                     ELSE kept[CHOOSE i \in hit : TRUE].Avg_ER]]])

\* the format columns of a wide table, in column order (sorted)
FormatColumns(T) == SortedText(DOMAIN T[1].cells)
WideColumn(T, f) == Tuple([i \in 1..Len(T) |-> T[i].cells[f]])

\* Line 203: "Video" if "Video" in columns else columns[1]
post_count_volume(T) ==
    IF sVideo \in DOMAIN T[1].cells THEN sVideo ELSE FormatColumns(T)[1]

\* Line 204: columns[1], the first format column after "brand"
avg_er_volume(T) == FormatColumns(T)[1]

\* What the script runs into when a groupby(...).apply(...) had no group to
\* apply to: the result has no metric columns.  Which exception it is depends
\* on the pandas release (reset_index cannot insert 'brand', or sort_values
\* finds no 'Total Posts').
EmptyApplyErrors ==
    {[kind |-> "ValueError", col |-> "brand"],
     [kind |-> "KeyError", col |-> "Total Posts"]}
\* columns[1] of a table that has no format column
IndexError == [kind |-> "IndexError", col |-> ""]

(***************************************************************************)
(* GENERATE TABLES, INFLUENCER TIER ANALYSIS                               *)
(***************************************************************************)
Ranked(T) == sort_brands(T, Column(T, "Total_Posts"))

\* Lines 164-216, one pass of the loop: the tables of one scope, each
\* stored as soon as it is built, up to the first line that raises.
GenerateTables ==
    /\ pc = "tables"
    /\ LET scope == ScopeNames[si]
           sdf == scopes(df)[scope]
           fl == format_long(sdf)
           format_post_count == pivot_post_count(fl)
           format_avg_er == pivot_avg_er(fl)
           t1 == ((scope \o "_Brand_Overall") :> Ranked(overall_table(sdf, <<"brand">>)))
           t2 == ((scope \o "_Format_PostCount") :>
                    sort_brands(format_post_count,
                        WideColumn(format_post_count,
                                   post_count_volume(format_post_count))))
           t3 == ((scope \o "_Format_AvgER") :>
                    sort_brands(format_avg_er,
                        WideColumn(format_avg_er, avg_er_volume(format_avg_er))))
           t4 == ((scope \o "_Brand_Type") :>
                    Ranked(overall_table(sdf, <<"brand", "post_type">>)))
           t5 == ((scope \o "_Brand_Source") :>
                    Ranked(overall_table(sdf, <<"brand", "platform">>)))
           t6 == ((scope \o "_Brand_Weekly") :>
                    overall_table(sdf, <<"brand", "Week">>))
       IN  IF sdf = <<>>
           THEN /\ \E e \in EmptyApplyErrors : Abort(e)
                /\ UNCHANGED <<outputs, si>>
           ELSE IF format_avg_er = <<>>
           THEN /\ Abort(IndexError)
                /\ outputs' = t2 @@ t1 @@ outputs
                /\ UNCHANGED si
           ELSE IF "platform" \in missing
           THEN /\ Abort(KeyError("platform"))
                /\ outputs' = t4 @@ t3 @@ t2 @@ t1 @@ outputs
                /\ UNCHANGED si
           ELSE IF "Week" \in missing
           THEN /\ Abort(KeyError("Week"))
                /\ outputs' = t5 @@ t4 @@ t3 @@ t2 @@ t1 @@ outputs
                /\ UNCHANGED si
           ELSE /\ outputs' = t6 @@ t5 @@ t4 @@ t3 @@ t2 @@ t1 @@ outputs
                /\ si' = si + 1
                /\ pc' = IF si = Len(ScopeNames) THEN "tier" ELSE "tables"
                /\ UNCHANGED err
    /\ UNCHANGED <<missing, raw, df, slides, arg, ret>>

\* Lines 222-229
TierAnalysis ==
    /\ pc = "tier"
    /\ LET rows == SelectSeq(df, IsInfluencerRow)
           tier == overall_table(rows, <<"brand", "influencer_tier">>)
       IN  IF "influencer_tier" \in missing
           THEN /\ Abort(KeyError("influencer_tier"))
                /\ UNCHANGED outputs
           ELSE IF tier = <<>>
           THEN /\ \E e \in EmptyApplyErrors : Abort(e)
                /\ UNCHANGED outputs
           ELSE /\ outputs' = ("Influencer_Tier_Analysis" :> Ranked(tier)) @@ outputs
                /\ pc' = "export"
                /\ UNCHANGED err
    /\ UNCHANGED <<missing, raw, df, si, slides, arg, ret>>

\* Lines 235-237: every table goes to a sheet of the workbook; the tables
\* themselves are left as they are
ExportExcel ==
    /\ pc = "export"
    /\ pc' = "slides"
    /\ UNCHANGED <<missing, raw, df, si, outputs, slides, err, arg, ret>>

(***************************************************************************)
(* PPT - WEEK ON WEEK TRENDLINES                                           *)
(***************************************************************************)
\* .fillna(0)
fillna0(c) == IF c.k = "nan" THEN N(0) ELSE c

\* Lines 245-268: the categories are the sorted weeks of the whole table;
\* a brand of PRIORITY_BRANDS that has rows gets a series holding the
\* 'Avg ER%' of its own rows in week order, NaN as 0.
add_trend_slide(wk, title) ==
    LET weeks == SortedText({wk[i].Week : i \in 1..Len(wk)})
        HasRows(brand) == \E i \in 1..Len(wk) : wk[i].brand = brand
        charted == SelectSeq(PRIORITY_BRANDS, HasRows)
        Values(brand) ==
            LET mine == {i \in 1..Len(wk) : wk[i].brand = brand}
                rank(i) == 1 + Cardinality({j \in mine :
                                StrLess(wk[j].Week, wk[i].Week)})
            IN  [j \in 1..Cardinality(mine) |->
                    fillna0(wk[CHOOSE i \in mine : rank(i) = j].Avg_ER)]
    IN  [title |-> title,
         categories |-> weeks,
         series |-> Tuple([b \in 1..Len(charted) |->
                        [name |-> charted[b], values |-> Values(charted[b])]])]

\* Lines 270-273: the scopes that get a slide, in order
SlideScopes == <<"Paid", "Branded", "Influencer", "Creator">>

\* the title of the slide of a scope (the source writes an en dash, which a
\* string of this module cannot hold)
SlideTitle(scope) == scope \o " Content - WoW Avg ER%"

AddTrendSlide ==
    /\ pc = "slides"
    /\ LET scope == SlideScopes[Len(slides) + 1]
       IN  slides' = Append(slides,
               add_trend_slide(outputs[scope \o "_Brand_Weekly"],
                               SlideTitle(scope)))
    /\ pc' = IF Len(slides) + 1 = Len(SlideScopes) THEN "done" ELSE "slides"
    /\ UNCHANGED <<missing, raw, df, si, outputs, err, arg, ret>>

(***************************************************************************)
(* Spec: the whole run, on every sheet of at most MaxRows rows drawn from  *)
(* the rows below, complete or with one required column absent             *)
(***************************************************************************)
W1 == <<"W","1">>
W2 == <<"W","2">>

RawRow(brand, post_type, format, likes, comments, views, followers, week, tier) ==
    [platform |-> sIg, brand |-> brand, post_type |-> post_type,
     format |-> format, Likes |-> likes, Comments |-> comments,
     views |-> views, followers |-> followers, Week |-> week,
     influencer_tier |-> tier]

RowPool ==
    {RawRow(Txt(sAcme), Txt(sOrganic), Txt(sImages), Num(2), Num(-1), Empty, Num(2), W1, Blank),
     RawRow(Txt(sEnsure), Txt(AllLower(sBranded)), Txt(sVideo), BadText, Empty, Num(4), Empty, W1, Blank),
     RawRow(Txt(sEnsure), Txt(AllLower(sTagged)), Txt(AllLower(sReels)), Num(1), Num(1), Empty, Num(3), W2, Txt(sMacro)),
     RawRow(Txt(Pad(AllLower(sSimilac), FALSE, TRUE)), Txt(sCreators), Txt(sShorts), Num(2), Num(1), Num(3), Num(1), W2, Blank),
     RawRow(Txt(sZeta), Txt(sCreator), Txt(sImage), Num(2), Num(0), Empty, Num(1), W1, Blank),
     RawRow(Txt(sAcme), Txt(sBranded), Txt(sImage), Num(1), Num(0), Empty, Num(4), W2, Blank),
     RawRow(Txt(sAcme), Txt(sInfluencer), Txt(sImage), NumText(1), Num(0), Num(5), Num(4), W1, Txt(sMicro))}

Sheets == UNION {[1..n -> RowPool] : n \in 1..MaxRows}
MissingOptions == {{}} \cup {{c} : c \in RequiredColumns}

Init ==
    /\ pc = "loaded"
    /\ missing \in MissingOptions
    /\ raw \in Sheets
    /\ df = <<>>
    /\ si = 0
    /\ outputs = <<>>
    /\ slides = <<>>
    /\ err = NoError
    /\ arg = <<>>
    /\ ret = <<>>

Next ==
    \/ Standardize
    \/ GenerateTables
    \/ TierAnalysis
    \/ ExportExcel
    \/ AddTrendSlide

Spec == Init /\ [][Next]_vars

(***************************************************************************)
(* SpecRate: the whole run, with every column present, on the sheets of    *)
(* rows whose rates are defined, zero, or without a denominator            *)
(***************************************************************************)
\* Acme/Organic: a static post, no views; Ensure/Branded: views and no
\* engagement; Ensure/Influencer: a dynamic post without views;
\* Similac/Creator: a dynamic post with views; Acme/Influencer: a static
\* post with followers; Zeta/Branded: a static post without followers
RatePool ==
    {RawRow(Txt(sAcme), Txt(sOrganic), Txt(sImages), Num(2), Num(-1), Empty, Num(2), W1, Blank),
     RawRow(Txt(sEnsure), Txt(AllLower(sBranded)), Txt(sVideo), BadText, Empty, Num(4), Empty, W1, Blank),
     RawRow(Txt(sEnsure), Txt(AllLower(sTagged)), Txt(AllLower(sReels)), Num(1), Num(1), Empty, Num(3), W2, Txt(sMacro)),
     RawRow(Txt(Pad(AllLower(sSimilac), FALSE, TRUE)), Txt(sCreators), Txt(sShorts), Num(2), Num(1), Num(3), Num(1), W2, Blank),
     RawRow(Txt(sAcme), Txt(sInfluencer), Txt(sImage), NumText(1), Num(0), Num(5), Num(4), W1, Txt(sMicro)),
     RawRow(Txt(sZeta), Txt(sBranded), Txt(sSidecar), Num(1), Num(1), Empty, Empty, W1, Blank)}

RateSheets == UNION {[1..n -> RatePool] : n \in 1..MaxRows}

InitRate ==
    /\ pc = "loaded"
    /\ missing = {}
    /\ raw \in RateSheets
    /\ df = <<>>
    /\ si = 0
    /\ outputs = <<>>
    /\ slides = <<>>
    /\ err = NoError
    /\ arg = <<>>
    /\ ret = <<>>

SpecRate == InitRate /\ [][Next]_vars

(***************************************************************************)
(* The claims about the STANDARDIZE COLUMNS block (SpecNorm)               *)
(***************************************************************************)
Standardized == pc = "tables"

\* C6: after the numeric coercion Likes, Comments, views and followers are
\* >= 0 for every raw cell (a number of any sign, text, blank), hence
\* engagement >= 0; an unparseable or missing cell is exactly 0, and the
\* coercion raises nothing.
C6_NumericNonNegative ==
    /\ err = NoError
    /\ Standardized =>
          \A i \in 1..Len(df) :
              /\ \A c \in {"Likes", "Comments", "views", "followers"} :
                    /\ df[i][c] >= 0
                    /\ raw[i][c].k \in {"text", "blank"} => df[i][c] = 0
              /\ df[i].engagement = df[i].Likes + df[i].Comments
              /\ df[i].engagement >= 0

\* trim, then title case, of a cell
TrimTitle(c) == str_title(str_strip(astype_str(c)))

\* C7: brand, post_type and format are each trimmed, title-cased and then
\* passed through the field's alias table, in this order, so that spellings
\* that differ by case and surrounding whitespace only get the same value and
\* the same is_dynamic / is_paid flags.
C7_TrimTitleAlias ==
    Standardized =>
        \A i \in 1..Len(df) :
            /\ df[i].brand = TrimTitle(raw[i].brand)
            /\ df[i].post_type = replace_post_type(TrimTitle(raw[i].post_type))
            /\ df[i].format = replace_format(TrimTitle(raw[i].format))
            /\ df[i].is_paid =
                  (replace_post_type(TrimTitle(raw[i].post_type))
                      \in {sBranded, sInfluencer, sCreator, sShop})
            /\ df[i].is_dynamic =
                  (replace_format(TrimTitle(raw[i].format)) \in {sVideo, sShorts})

(***************************************************************************)
(* The claims about the whole run (Spec)                                   *)
(***************************************************************************)
Stored(name) == name \in DOMAIN outputs

\* the rows of priority-list brands come first, in list order
PriorityFirst(T) ==
    \A k \in 1..Len(T) : \A l \in (k+1)..Len(T) :
        /\ InPriorityList(T[l].brand) => InPriorityList(T[k].brand)
        /\ (InPriorityList(T[k].brand) /\ InPriorityList(T[l].brand))
              => ListIndex(T[k].brand) <= ListIndex(T[l].brand)

ScopeTableLabels == {"_Brand_Overall", "_Format_PostCount", "_Format_AvgER",
                     "_Brand_Type", "_Brand_Source", "_Brand_Weekly"}
ScopeSet == {ScopeNames[i] : i \in 1..Len(ScopeNames)}

\* C2: after a complete run every table of outputs that has a brand column
\* (the six tables of each scope and Influencer_Tier_Analysis) is in ranked
\* order: priority-list brands first, in PRIORITY_BRANDS order.
C2_EveryTableRanked ==
    pc = "done" =>
        /\ \A s \in ScopeSet : \A l \in ScopeTableLabels :
              Stored(s \o l) /\ PriorityFirst(outputs[s \o l])
        /\ Stored("Influencer_Tier_Analysis")
        /\ PriorityFirst(outputs["Influencer_Tier_Analysis"])

\* the rows of sdf that make the group of the table row t, for the key
\* columns by
GroupOf(sdf, by, t) ==
    {i \in 1..Len(sdf) :
        \A j \in 1..Len(by) :
            /\ KeyPresent(sdf[i], by[j])
            /\ KeyValue(sdf[i], by[j]) = t[by[j]]}

DynamicOf(sdf, S) == {i \in S : sdf[i].format \in {sVideo, sShorts}}

\* every row of the table T of (sdf, by) whose dynamic rows have views
\* summing to 0 reports NaN, which is not a number
OverallUndefinedKept(T, sdf, by) ==
    \A k \in 1..Len(T) :
        SumOver(sdf, DynamicOf(sdf, GroupOf(sdf, by, T[k])), "views") = 0
            => T[k].Avg_ER = NaN /\ T[k].Avg_ER.k # "num"

\* the denominator format_metrics uses for the rows S of sdf, of format f
FormatDenominator(sdf, S, f) ==
    IF f \in {sVideo, sShorts}
    THEN SumOver(sdf, S, "views")
    ELSE SumOver(sdf, S, "followers")

\* in the wide rate table T of sdf, a (brand, format) group whose
\* denominator sums to 0 has no cell, or the cell "-": never a number
FormatUndefinedKept(T, sdf) ==
    \A i \in 1..Len(sdf) :
        LET b == sdf[i].brand
            f == sdf[i].format
            S == {j \in 1..Len(sdf) : sdf[j].brand = b /\ sdf[j].format = f}
        IN  FormatDenominator(sdf, S, f) = 0 =>
                \A k \in 1..Len(T) :
                    (T[k].brand = b /\ f \in DOMAIN T[k].cells)
                        => T[k].cells[f] = Dash /\ T[k].cells[f].k # "num"

OverallLabels ==
    {<<"_Brand_Overall", <<"brand">>>>,
     <<"_Brand_Type", <<"brand", "post_type">>>>,
     <<"_Brand_Source", <<"brand", "platform">>>>,
     <<"_Brand_Weekly", <<"brand", "Week">>>>}

\* C3: a group whose denominator sums to 0 reports the undefined value in
\* every table stored: NaN in the tables of overall_metrics, "-" (or no
\* cell) in the wide rate table, never the number 0; and no run ends in a
\* division error.
C3_ZeroDenominatorUndefined ==
    /\ err.kind # "ZeroDivisionError"
    /\ \A s \in ScopeSet :
          /\ \A lb \in OverallLabels :
                Stored(s \o lb[1]) =>
                    OverallUndefinedKept(outputs[s \o lb[1]], scopes(df)[s], lb[2])
          /\ Stored(s \o "_Format_AvgER") =>
                FormatUndefinedKept(outputs[s \o "_Format_AvgER"], scopes(df)[s])
    /\ Stored("Influencer_Tier_Analysis") =>
          OverallUndefinedKept(outputs["Influencer_Tier_Analysis"],
                               scopes(df)["Influencer"],
                               <<"brand", "influencer_tier">>)

\* a run that stored, side by side: NaN for a group without views (Acme,
\* Organic), the real rate 0 of a group with views and no engagement
\* (Ensure, Branded), and in the wide rate table "-" for a group without
\* views next to the real rate 0 of another group of the same brand
C3_Witness ==
    /\ Stored("Organic_Brand_Overall") /\ Stored("Branded_Brand_Overall")
    /\ Stored("Paid_Format_AvgER")
    /\ \E k \in 1..Len(outputs["Organic_Brand_Overall"]) :
          outputs["Organic_Brand_Overall"][k].Avg_ER = NaN
    /\ \E k \in 1..Len(outputs["Branded_Brand_Overall"]) :
          /\ outputs["Branded_Brand_Overall"][k].Avg_ER = N(0)
          /\ outputs["Branded_Brand_Overall"][k].Total_Views = N(4)
    /\ \E k \in 1..Len(outputs["Paid_Format_AvgER"]) :
          LET t == outputs["Paid_Format_AvgER"][k]
          IN  /\ t.brand = sEnsure
              /\ DOMAIN t.cells = {sShorts, sVideo}
              /\ t.cells[sShorts] = Dash
              /\ t.cells[sVideo] = N(0)
              /\ \E i \in 1..Len(df) :
                    /\ df[i].brand = sEnsure /\ df[i].format = sShorts
                    /\ df[i].is_paid /\ df[i].views = 0

\* C8: when a required column is absent the run aborts with a
\* MissingColumnError that names the column; it neither completes nor ends
\* in another kind of error.
C8_MissingColumnError ==
    missing # {} =>
        /\ pc # "done"
        /\ pc = "aborted" => err.kind = "MissingColumnError" /\ err.col \in missing

\* number of posts of the brand in the scope
BrandPosts(sdf, b) == Cardinality({i \in 1..Len(sdf) : sdf[i].brand = b})

\* the rows of brands outside the priority list are in descending order of
\* Count
DescendingByCount(T, Count(_)) ==
    \A k \in 1..Len(T) : \A l \in (k+1)..Len(T) :
        (~InPriorityList(T[k].brand) /\ ~InPriorityList(T[l].brand))
            => Count(T[k]) >= Count(T[l])

TotalPostsOf(t) == t.Total_Posts.n

LongRanked(name) == Stored(name) /\ DescendingByCount(outputs[name], TotalPostsOf)

WideRanked(name, sdf) ==
    /\ Stored(name)
    /\ LET PostsOf(t) == BrandPosts(sdf, t.brand)
       IN  DescendingByCount(outputs[name], PostsOf)

\* C9: every table is ranked with its post count as the volume: among the
\* brands outside the priority list the rows are in descending order of
\* post count, in Brand_Overall, Format_PostCount, Format_AvgER, Brand_Type,
\* Brand_Source and Influencer_Tier_Analysis.
C9_RankedByPostCount ==
    pc = "done" =>
        /\ \A s \in ScopeSet :
              /\ LongRanked(s \o "_Brand_Overall")
              /\ LongRanked(s \o "_Brand_Type")
              /\ LongRanked(s \o "_Brand_Source")
              /\ WideRanked(s \o "_Format_PostCount", scopes(df)[s])
              /\ WideRanked(s \o "_Format_AvgER", scopes(df)[s])
        /\ LongRanked("Influencer_Tier_Analysis")

\* the series of a brand laid out on the axis: for every week label the
\* brand's rate of that week in the weekly table, 0 where it has none
AlignedValues(wk, weeks, brand) ==
    Tuple([j \in 1..Len(weeks) |->
        LET hit == {i \in 1..Len(wk) : wk[i].brand = brand /\ wk[i].Week = weeks[j]}
        IN  IF hit = {} THEN N(0)
            ELSE fillna0(wk[CHOOSE i \in hit : TRUE].Avg_ER)])

\* C10: on every trend slide each series has one value per week label of
\* the category axis (the sorted weeks of the whole weekly table), the i-th
\* value being the brand's rate for the i-th label, 0 where undefined.
C10_SeriesAlignedToAxis ==
    \A n \in 1..Len(slides) :
        LET wk == outputs[SlideScopes[n] \o "_Brand_Weekly"]
            slide == slides[n]
        IN  /\ slide.categories = SortedText({wk[i].Week : i \in 1..Len(wk)})
            /\ \A b \in 1..Len(slide.series) :
                  /\ Len(slide.series[b].values) = Len(slide.categories)
                  /\ slide.series[b].values =
                        AlignedValues(wk, slide.categories, slide.series[b].name)

=============================================================================
